---- MODULE Spec2Model ----
(***************************************************************************)
(* Scroll-triggered and pointer-triggered animation wiring of the kbs site  *)
(* (scripts/scroll-animations.ts and its sibling copy).  The repository     *)
(* holds three builds of the same module:                                   *)
(*   "motion"  - the Motion One build (src/unnamed/part_000)                *)
(*   "minimal" - the minimal Motion One build (scroll-animations.ts 1-348)  *)
(*   "anime"   - the Anime.js build (scroll-animations.ts 350-912)          *)
(* Strings that the code parses or splits are sequences of one-character    *)
(* strings; numbers that the code divides are kept as exact fractions.      *)
(***************************************************************************)
EXTENDS Integers, Sequences, FiniteSets, TLC

VARIABLES
    variant,            \* which build of the module is loaded
    dataAnimate,        \* element -> data-animate attribute (Absent when not set)
    dataStagger,        \* element -> data-stagger attribute
    staggerItem,        \* element -> carries data-stagger-item
    staggerDelayAttr,   \* element -> data-stagger-delay attribute
    opacity,            \* element -> inline style.opacity ("" when never written)
    running,            \* element -> animation in flight on it ("none", "fade", "move")
    animatedElements,   \* ScrollAnimationController.animatedElements
    animateElementRuns, \* element -> number of animateElement invocations
    staggerRuns,        \* element -> number of animateStaggerChildren invocations
    staggerCalls,       \* element -> primitive calls issued by animateStaggerChildren
    lastThrew,          \* the last observer callback ended by an exception
    lastSkipped,        \* targets the last callback left undispatched when it ended so
    parSpeed,           \* parallax element -> data-parallax attribute
    parDirection,       \* parallax element -> data-parallax-direction attribute
    ticking,            \* setupParallax: the in-flight flag
    rafQueue,           \* requestAnimationFrame callbacks outstanding
    scrollY,            \* window.scrollY
    transform,          \* parallax element -> translateY assigned to style.transform
    prevTransform,      \* transform before the last recomputation
    lastProgress,       \* parallax element -> scrollProgress of the last recomputation
    frameRuns,          \* handleScroll runs in the last rendered frame
    frameScrolls,       \* scroll events the last rendered frame answered
    scrollsSinceFrame,  \* scroll events since the last rendered frame
    parallaxElements,   \* the elements the scan of setupParallax found
    scrollListeners,    \* scroll listeners setupParallax installed on window
    scheduledScrollY,   \* scroll position at the event that requested the callback
    frameScrollY,       \* window.scrollY as the last handleScroll read it
    lastTop,            \* parallax element -> rect.top the last handleScroll read
    parWrote,           \* parallax element -> the last handleScroll assigned its transform
    counterAttr,        \* data-counter attribute of the counter element
    counterText,        \* textContent of the counter element
    counterLast,        \* the progress of the last update callback (NoUpdate before any)
    counterObserved,    \* counterObserver observes the element
    counterStarted,     \* animations started for the element
    counterActive,      \* animations of the element still in flight
    magneticAttr,       \* data-magnetic attribute of the magnetic element
    magneticAnim,       \* the animation most recently issued for the magnetic element
    magneticApplied,    \* the offset the element currently shows
    magneticLastEvent,  \* the last pointer event handled: "none", "move", "leave"
    magneticMoves,      \* mousemove events handled
    magneticPointer,    \* clientX and clientY of the last mousemove event
    revealText,         \* textContent of the text-reveal element in the markup
    revealMode,         \* data-text-reveal attribute
    revealContent,      \* textContent of the element now
    revealUnits,        \* text of each wrapped unit (span) of the element, in order
    revealObserved,     \* textObserver observes the element
    revealRuns,         \* times the split-and-wrap ran
    revealOpacity,      \* inline style.opacity of the text-reveal element ("" when never written)
    revealTimer,        \* the 100 ms timer of the setup: "none", "pending", "fired"
    readyState,         \* document.readyState
    moduleEvaluated,    \* the module's top-level code has run
    dclListeners,       \* DOMContentLoaded listeners the module registered, in order
    initRuns,           \* runs of initScrollAnimations
    setupRuns,          \* setup function -> number of runs
    setupEarly,         \* a setup function ran while the document was still loading
    optKind,            \* data-animate of the element handed to animateElement
    optDelay,           \* data-delay of that element
    optDuration,        \* data-duration of that element
    optCall,            \* the call animateElement made to the animation primitive
    explicitInits,      \* calls of the exported initScrollAnimations by the host page
    otherSeen,          \* animatedElements of each controller made after the first
    lineShapes,         \* the children of the SVG the selector matches, in document order
    lineDashArray,      \* child -> style.strokeDasharray (Undefined when never written)
    lineDashOffset,     \* child -> style.strokeDashoffset (Undefined when never written)
    linePending,        \* draw animations issued and not yet started: child and delay in ms
    lineStarted,        \* draw animations started: child and the ms after the reveal
    lineObserved,       \* lineObserver observes the SVG
    lineRuns,           \* times the reveal branch of the line observer ran
    cardParts,          \* which of the image, overlay and content children the card has
    cardHover,          \* the pointer is over the card
    cardEvents,         \* mouseenter and mouseleave events the card received
    cardLast,           \* child -> the animation issued last for it: "none", "enter", "leave"
    cardIssued          \* child -> animations issued for it

ctlVars == <<variant, dataAnimate, dataStagger, staggerItem, staggerDelayAttr,
             opacity, running, animatedElements, animateElementRuns,
             staggerRuns, staggerCalls, lastThrew, lastSkipped>>
parVars == <<parSpeed, parDirection, ticking, rafQueue, scrollY, transform,
             prevTransform, lastProgress, frameRuns, frameScrolls,
             scrollsSinceFrame, parallaxElements, scrollListeners,
             scheduledScrollY, frameScrollY, lastTop, parWrote>>
cntVars == <<counterAttr, counterText, counterLast, counterObserved,
             counterStarted, counterActive>>
magVars == <<magneticAttr, magneticAnim, magneticApplied, magneticLastEvent,
             magneticMoves, magneticPointer>>
txtVars == <<revealText, revealMode, revealContent, revealUnits,
             revealObserved, revealRuns, revealOpacity, revealTimer>>
loadVars == <<readyState, moduleEvaluated, dclListeners, initRuns, setupRuns,
              setupEarly>>
optVars == <<optKind, optDelay, optDuration, optCall>>
reinitVars == <<explicitInits, otherSeen>>
lineVars == <<lineShapes, lineDashArray, lineDashOffset, linePending, lineStarted,
              lineObserved, lineRuns>>
cardVars == <<cardParts, cardHover, cardEvents, cardLast, cardIssued>>
vars == <<ctlVars, parVars, cntVars, magVars, txtVars, loadVars, optVars,
          reinitVars, lineVars, cardVars>>

----------------------------------------------------------------------------
(* Bounds of the model *)

\* elements of the page: element 1 and its descendants 2..NumEls, in document order
NumEls == 3
\* entries in one IntersectionObserver callback batch
MaxBatch == 2

Els == 1..NumEls

----------------------------------------------------------------------------
(* Strings and numbers as the code handles them *)

\* an attribute that is not set (dataset.x is undefined): as a kind name, and as text
Absent == "absent"
Undefined == <<"undefined">>

\* a number: NaN, or the exact fraction n/d (d > 0)
NaNNum == [nan |-> TRUE, n |-> 0, d |-> 1]
Rat(n, d) == [nan |-> FALSE, n |-> n, d |-> d]
Num(n) == Rat(n, 1)
RMul(a, b) == IF a.nan \/ b.nan THEN NaNNum ELSE Rat(a.n * b.n, a.d * b.d)
RDivInt(a, k) == IF a.nan THEN NaNNum ELSE Rat(a.n, a.d * k)
RAdd(a, b) == IF a.nan \/ b.nan THEN NaNNum ELSE Rat(a.n * b.d + b.n * a.d, a.d * b.d)
RSub(a, b) == IF a.nan \/ b.nan THEN NaNNum ELSE Rat(a.n * b.d - b.n * a.d, a.d * b.d)
REq(a, b) == ~a.nan /\ ~b.nan /\ a.n * b.d = b.n * a.d

DigitChars == <<"0", "1", "2", "3", "4", "5", "6", "7", "8", "9">>

IsDigit(c) == \E i \in 1..10 : DigitChars[i] = c

DigitVal(c) == (CHOOSE i \in 1..10 : DigitChars[i] = c) - 1

\* the longest prefix of s made of digits, as a number; n digits read so far
RECURSIVE DigitsValue(_, _)
DigitsValue(s, acc) ==
    IF s = <<>> \/ ~IsDigit(Head(s)) THEN acc
    ELSE DigitsValue(Tail(s), 10 * acc + DigitVal(Head(s)))

RECURSIVE DigitsLen(_)
DigitsLen(s) ==
    IF s = <<>> \/ ~IsDigit(Head(s)) THEN 0 ELSE 1 + DigitsLen(Tail(s))

\* parseInt(s): optional sign, then leading digits; NaN when there is none
ParseInt(s) ==
    LET neg  == s # <<>> /\ Head(s) = "-"
        body == IF s # <<>> /\ Head(s) \in {"-", "+"} THEN Tail(s) ELSE s
    IN IF DigitsLen(body) = 0 THEN NaNNum
       ELSE IF neg THEN Num(0 - DigitsValue(body, 0)) ELSE Num(DigitsValue(body, 0))

RECURSIVE Pow10(_)
Pow10(k) == IF k = 0 THEN 1 ELSE 10 * Pow10(k - 1)

RECURSIVE DropN(_, _)
DropN(s, k) == IF k = 0 THEN s ELSE DropN(Tail(s), k - 1)

\* parseFloat(s): optional sign, digits, optionally a point and digits,
\* optionally an exponent (e, optional sign, digits); NaN when the mantissa
\* has no digit
ParseFloat(s) ==
    LET neg   == s # <<>> /\ Head(s) = "-"
        body  == IF s # <<>> /\ Head(s) \in {"-", "+"} THEN Tail(s) ELSE s
        il    == DigitsLen(body)
        rest  == DropN(body, il)
        point == rest # <<>> /\ Head(rest) = "."
        frac  == IF point THEN Tail(rest) ELSE <<>>
        fl    == DigitsLen(frac)
        after == DropN(frac, fl)
        tail  == IF point THEN after ELSE rest
        etxt  == IF tail # <<>> /\ Head(tail) \in {"e", "E"} THEN Tail(tail) ELSE <<>>
        eneg  == etxt # <<>> /\ Head(etxt) = "-"
        edig  == IF etxt # <<>> /\ Head(etxt) \in {"-", "+"} THEN Tail(etxt) ELSE etxt
        ex    == DigitsValue(edig, 0)
        mag   == DigitsValue(body, 0) * Pow10(fl) + DigitsValue(frac, 0)
        sgn   == IF neg THEN 0 - mag ELSE mag
    IN IF il = 0 /\ fl = 0 THEN NaNNum
       ELSE IF eneg THEN Rat(sgn, Pow10(fl) * Pow10(ex))
       ELSE Rat(sgn * Pow10(ex), Pow10(fl))

MathRoundAbove(x) == (x.n + x.d) \div x.d

\* Math.round(x): the integer nearest x, a half going up
MathRound(x) == (2 * x.n + x.d) \div (2 * x.d)

\* a non-negative integer in decimal digits
RECURSIVE NatToString(_)
NatToString(k) ==
    IF k < 10 THEN <<DigitChars[k + 1]>>
    ELSE Append(NatToString(k \div 10), DigitChars[(k % 10) + 1])

\* n.toString() of an integer
IntToString(k) == IF k < 0 THEN <<"-">> \o NatToString(0 - k) ELSE NatToString(k)

ToFixed2(x) ==
    LET neg == x.n < 0
        a   == IF neg THEN 0 - x.n ELSE x.n
        k   == (200 * a + x.d) \div (2 * x.d)
        hd  == (k % 100) \div 10
        ld  == k % 10
    IN (IF neg THEN <<"-">> ELSE <<>>) \o NatToString(k \div 100)
          \o <<".", DigitChars[hd + 1], DigitChars[ld + 1]>>

\* x.toFixed(1): the magnitude rounded to tenths (a half going up), the sign
\* kept, one digit after the point
ToFixed1(x) ==
    LET neg == x.n < 0
        a   == IF neg THEN 0 - x.n ELSE x.n
        k   == (20 * a + x.d) \div (2 * x.d)
    IN (IF neg THEN <<"-">> ELSE <<>>) \o NatToString(k \div 10)
          \o <<".", DigitChars[(k % 10) + 1]>>

\* s.includes(c)
Includes(s, c) == \E i \in 1..Len(s) : s[i] = c

\* a || b on attribute text: undefined and the empty string are falsy
OrDefault(attr, dflt) == IF attr = Undefined \/ attr = <<>> THEN dflt ELSE attr

\* a || b on a kind name
KindOrDefault(attr, dflt) == IF attr = Absent \/ attr = "" THEN dflt ELSE attr

----------------------------------------------------------------------------
(* ScrollAnimationController: the entrance and the stagger triggers *)

Variants == {"motion", "minimal", "anime"}

\* keys of the `animations` table of animateElement
PresetNames == {"fade-up", "fade-down", "fade-left", "fade-right", "zoom-in",
                "zoom-out", "flip-up", "rotate-in", "blur-in", "slide-reveal",
                "bounce-in", "skew-in"}

\* keys of the `baseConfig` table of animateStaggerChildren
StaggerPresetNames == {"fade-up", "fade-down", "zoom-in", "slide-left",
                       "slide-right", "rotate-stagger", "cascade"}

\* both tables are object literals: a lookup also finds what Object.prototype
\* holds.  Called with no receiver, valueOf throws a TypeError; constructor
\* returns a fresh object.
ProtoKeys == {"constructor", "valueOf"}
ProtoThrowingKeys == {"valueOf"}

\* table[key]: an own entry, an inherited one, or undefined
Lookup(own, key) ==
    IF key \in own THEN "own"
    ELSE IF key \in ProtoKeys THEN "inherited"
    ELSE "undefined"

\* descendants of an element, in document order
Descendants(e) == IF e = 1 THEN 2..NumEls ELSE {}

\* a set of elements as the sequence querySelectorAll returns (document order)
RECURSIVE DocOrder(_)
DocOrder(S) ==
    IF S = {} THEN <<>>
    ELSE LET m == CHOOSE x \in S : \A y \in S : x <= y
         IN <<m>> \o DocOrder(S \ {m})

RECURSIVE Reverse(_)
Reverse(q) == IF q = <<>> THEN <<>> ELSE Append(Reverse(Tail(q)), Head(q))

StaggerItemsReversed(c) == Reverse(DocOrder({e \in Descendants(c) : staggerItem[e]}))

\* container.querySelectorAll('[data-stagger-item]')
StaggerItems(c) == DocOrder({e \in Descendants(c) : staggerItem[e]})

\* the state the handlers of one controller read and write
CtlState == [seen |-> animatedElements, opacity |-> opacity, running |-> running,
             aRuns |-> animateElementRuns, sRuns |-> staggerRuns,
             sCalls |-> staggerCalls, threw |-> FALSE, skipped |-> {}]

SetupOpacityEveryBuild(v, attrs) ==
    [e \in Els |-> IF attrs[e] # Absent THEN "0" ELSE ""]

\* setupObservers: the opacity each element has once the scan has run
SetupOpacity(v, attrs) ==
    [e \in Els |-> IF attrs[e] # Absent /\ v \in {"motion", "anime"} THEN "0" ELSE ""]

\* the animation a preset starts on its target: the presets of the minimal
\* build animate the transform only, the others opacity from 0 to 1 as well
PresetAnimation(v) == IF v = "minimal" THEN "move" ELSE "fade"

\* animateElement(element)
AnimateElement(st, e) ==
    LET key  == KindOrDefault(dataAnimate[e], "fade-up")
        look == Lookup(PresetNames, key)
        st1  == [st EXCEPT !.aRuns[e] = @ + 1]
    IN IF look = "own"
       THEN [st1 EXCEPT !.running[e] = PresetAnimation(variant)]
       ELSE IF variant = "anime"
       THEN st1
       ELSE IF look = "inherited"
       THEN [st1 EXCEPT !.threw = key \in ProtoThrowingKeys]
       ELSE IF variant = "motion"
       THEN [st1 EXCEPT !.opacity[e] = "1"]
       ELSE st1

ShouldRevealNoSeenCheck(st, entry) == entry.isIntersecting

ShouldRevealNoExitCheck(st, entry) == entry.target \notin st.seen

\* the guard of both observer callbacks
ShouldReveal(st, entry) ==
    entry.isIntersecting /\ entry.target \notin st.seen

\* one entry of handleIntersection's forEach
EntranceEntry(st, entry) ==
    IF ShouldReveal(st, entry)
    THEN AnimateElement([st EXCEPT !.seen = @ \cup {entry.target}], entry.target)
    ELSE st

\* the entries an exception leaves unhandled that the guard would have passed
Unhandled(st, entries) ==
    {entries[i].target : i \in {j \in 1..Len(entries) : ShouldReveal(st, entries[j])}}

\* handleIntersection(entries): forEach stops at the first exception
RECURSIVE HandleIntersectionFrom(_, _)
HandleIntersectionFrom(st, entries) ==
    IF entries = <<>> THEN st
    ELSE IF st.threw THEN [st EXCEPT !.skipped = Unhandled(st, entries)]
    ELSE HandleIntersectionFrom(EntranceEntry(st, Head(entries)), Tail(entries))

\* the literal '100' of animateStaggerChildren, and the constant of the minimal build
DefaultStaggerDelay == <<"1", "0", "0">>
MinimalStaggerDelay == 30

\* staggerDelayMs / staggerDelay of animateStaggerChildren, in ms
StaggerDelayMs(v, attr) ==
    IF v = "minimal" THEN Num(MinimalStaggerDelay)
    ELSE ParseInt(OrDefault(attr, DefaultStaggerDelay))

\* the time unit of the animation primitive: Motion One counts seconds, Anime.js ms
PrimitiveUnit(v) == IF v = "anime" THEN "ms" ELSE "s"

StaggerStepUnconverted(v, attr) == StaggerDelayMs(v, attr)

\* the step handed to stagger(...): staggerDelayMs / 1000 for Motion One,
\* staggerDelay as it is for Anime.js
StaggerStep(v, attr) ==
    IF v = "anime" THEN StaggerDelayMs(v, attr)
    ELSE RDivInt(StaggerDelayMs(v, attr), 1000)

\* stagger(step): the delay of the target at index i (from 0)
StaggerDelayAt(step, i) == RMul(Num(i), step)

\* the keyframes handed to the primitive: a preset of baseConfig, or none
StaggerConfig(v, attr) ==
    LET type == KindOrDefault(attr, "fade-up")
        look == Lookup(StaggerPresetNames, type)
    IN IF look = "own" THEN type
       ELSE IF v = "anime" THEN "none"
       ELSE IF look = "inherited" THEN "none"
       ELSE "fade-up"

\* the one call animateStaggerChildren makes
StaggerCall(v, c) ==
    LET children == StaggerItems(c)
        step     == StaggerStep(v, staggerDelayAttr[c])
    IN [targets   |-> children,
        keyframes |-> StaggerConfig(v, dataStagger[c]),
        unit      |-> PrimitiveUnit(v),
        delays    |-> [k \in 1..Len(children) |-> StaggerDelayAt(step, k - 1)]]

\* animateStaggerChildren(container)
AnimateStaggerChildren(st, c) ==
    LET call   == StaggerCall(variant, c)
        kids   == {call.targets[k] : k \in 1..Len(call.targets)}
        hidden == [e \in Els |-> IF e \in kids /\ variant # "minimal"
                                 THEN "0" ELSE st.opacity[e]]
        anims  == [e \in Els |-> IF e \in kids /\ call.keyframes # "none"
                                 THEN PresetAnimation(variant) ELSE st.running[e]]
    IN [st EXCEPT !.sRuns[c] = @ + 1,
                  !.opacity = hidden,
                  !.running = anims,
                  !.sCalls[c] = Append(@, call)]

\* one entry of the stagger observer's forEach
StaggerEntry(st, entry) ==
    IF ShouldReveal(st, entry)
    THEN AnimateStaggerChildren([st EXCEPT !.seen = @ \cup {entry.target}], entry.target)
    ELSE st

\* the stagger observer's callback
RECURSIVE HandleStaggerFrom(_, _)
HandleStaggerFrom(st, entries) ==
    IF entries = <<>> THEN st
    ELSE IF st.threw THEN [st EXCEPT !.skipped = Unhandled(st, entries)]
    ELSE HandleStaggerFrom(StaggerEntry(st, Head(entries)), Tail(entries))

\* a callback batch over the targets an observer observes
Batches(targets) ==
    UNION {[1..n -> [target : targets, isIntersecting : BOOLEAN]] : n \in 1..MaxBatch}

EntranceTargets == {e \in Els : dataAnimate[e] # Absent}
StaggerTargets == {e \in Els : dataStagger[e] # Absent}

CommitCtl(st) ==
    /\ animatedElements' = st.seen
    /\ opacity' = st.opacity
    /\ running' = st.running
    /\ animateElementRuns' = st.aRuns
    /\ staggerRuns' = st.sRuns
    /\ staggerCalls' = st.sCalls
    /\ lastThrew' = st.threw
    /\ lastSkipped' = st.skipped
    /\ UNCHANGED <<variant, dataAnimate, dataStagger, staggerItem, staggerDelayAttr>>

\* the entrance observer reports a batch
HandleIntersection ==
    /\ \E entries \in Batches(EntranceTargets) :
          CommitCtl(HandleIntersectionFrom(CtlState, entries))
    /\ UNCHANGED <<parVars, cntVars, magVars, txtVars, loadVars, optVars,
                 reinitVars, lineVars, cardVars>>

\* the stagger observer reports a batch
HandleStagger ==
    /\ \E entries \in Batches(StaggerTargets) :
          CommitCtl(HandleStaggerFrom(CtlState, entries))
    /\ UNCHANGED <<parVars, cntVars, magVars, txtVars, loadVars, optVars,
                 reinitVars, lineVars, cardVars>>

\* an animation in flight reaches its end: a fade leaves opacity 1
AnimationFinish ==
    /\ \E e \in Els :
          /\ running[e] # "none"
          /\ opacity' = [opacity EXCEPT ![e] = IF running[e] = "fade" THEN "1" ELSE @]
          /\ running' = [running EXCEPT ![e] = "none"]
    /\ UNCHANGED <<variant, dataAnimate, dataStagger, staggerItem, staggerDelayAttr,
                   animatedElements, animateElementRuns, staggerRuns, staggerCalls,
                   lastThrew, lastSkipped>>
    /\ UNCHANGED <<parVars, cntVars, magVars, txtVars, loadVars, optVars,
                 reinitVars, lineVars, cardVars>>

\* the pages of the model: element 1 may be a stagger container, elements 1 and
\* 2 may opt into the entrance animation, every descendant of 1 may be a
\* stagger item
AnimateValues == {Absent, "", "zoom-in", "bogus", "valueOf"}
StaggerValues == {Absent, "", "cascade", "bogus", "valueOf"}
StaggerDelayValues == {Undefined, <<>>, <<"0">>, <<"5", "0">>, <<"a", "b">>}
EntranceCandidates == {1, 2}

\* the other effects are not set up
ParIdle ==
    /\ parSpeed = <<>> /\ parDirection = <<>>
    /\ ticking = FALSE /\ rafQueue = 0 /\ scrollY = 0 /\ transform = <<>>
    /\ prevTransform = <<>> /\ lastProgress = <<>> /\ frameRuns = 0
    /\ frameScrolls = 0 /\ scrollsSinceFrame = 0
    /\ parallaxElements = {} /\ scrollListeners = 0
    /\ scheduledScrollY = 0 /\ frameScrollY = 0
    /\ lastTop = <<>> /\ parWrote = <<>>
CntIdle ==
    /\ counterAttr = Undefined /\ counterText = <<>> /\ counterLast = NaNNum
    /\ counterObserved = FALSE /\ counterStarted = 0 /\ counterActive = 0
MagIdle ==
    /\ magneticAttr = Undefined /\ magneticAnim = <<>> /\ magneticApplied = <<>>
    /\ magneticLastEvent = "none" /\ magneticMoves = 0
    /\ magneticPointer = <<>>
TxtIdle ==
    /\ revealText = <<>> /\ revealMode = Absent /\ revealContent = <<>>
    /\ revealUnits = <<>> /\ revealObserved = FALSE /\ revealRuns = 0
    /\ revealOpacity = "" /\ revealTimer = "none"

\* the functions initScrollAnimations runs, setupObservers through the
\* controller's constructor and the others in this order
AncillarySetups == <<"setupCardAnimations", "setupFloatingElements",
                     "setupCounterAnimations", "setupTextRevealAnimations",
                     "setupLineDrawAnimations", "setupMagneticEffect">>
SetupNames == {"setupObservers"} \cup {AncillarySetups[i] : i \in 1..Len(AncillarySetups)}

\* the module was evaluated in a loaded document and has set everything up
LoadIdle ==
    /\ readyState = "complete" /\ moduleEvaluated = TRUE /\ dclListeners = <<>>
    /\ initRuns = 1 /\ setupRuns = [f \in SetupNames |-> 1] /\ setupEarly = FALSE

\* no call of the animation primitive
NoCall == [preset |-> "none", delay |-> NaNNum, duration |-> NaNNum, unit |-> "none"]

\* no element is handed to animateElement
OptIdle ==
    /\ optKind = "" /\ optDelay = Undefined /\ optDuration = Undefined
    /\ optCall = NoCall

\* the host page never calls initScrollAnimations itself
ReinitIdle == explicitInits = 0 /\ otherSeen = <<>>

\* the page has no data-line-draw SVG and no card
LineIdle ==
    /\ lineShapes = <<>> /\ lineDashArray = <<>> /\ lineDashOffset = <<>>
    /\ linePending = {} /\ lineStarted = {} /\ lineObserved = FALSE
    /\ lineRuns = 0
CardIdle ==
    /\ cardParts = {} /\ cardHover = FALSE /\ cardEvents = 0
    /\ cardLast = <<>> /\ cardIssued = <<>>

\* a page whose document is loaded, after new ScrollAnimationController()
Init ==
    /\ variant \in Variants
    /\ dataAnimate \in [Els -> AnimateValues]
    /\ \A e \in Els \ EntranceCandidates : dataAnimate[e] = Absent
    /\ dataStagger \in [Els -> StaggerValues]
    /\ \A e \in Els : e # 1 => dataStagger[e] = Absent
    /\ staggerItem \in [Els -> BOOLEAN]
    /\ staggerItem[1] = FALSE
    /\ staggerDelayAttr \in [Els -> StaggerDelayValues]
    /\ \A e \in Els : dataStagger[e] = Absent => staggerDelayAttr[e] = Undefined
    /\ opacity = SetupOpacity(variant, dataAnimate)
    /\ running = [e \in Els |-> "none"]
    /\ animatedElements = {}
    /\ animateElementRuns = [e \in Els |-> 0]
    /\ staggerRuns = [e \in Els |-> 0]
    /\ staggerCalls = [e \in Els |-> <<>>]
    /\ lastThrew = FALSE
    /\ lastSkipped = {}
    /\ ParIdle /\ CntIdle /\ MagIdle /\ TxtIdle /\ LoadIdle /\ OptIdle /\ ReinitIdle
    /\ LineIdle /\ CardIdle

Next == HandleIntersection \/ HandleStagger \/ AnimationFinish

Spec == Init /\ [][Next]_vars

----------------------------------------------------------------------------
(* setupParallax: the scroll listener, the frame callback and handleScroll *)

\* window.innerHeight and the height of a parallax element's rect, in px
ViewportHeight == 3
ElementHeight == 2
\* scroll positions 0..MaxScroll, and scroll events counted between two frames
MaxScroll == 1
MaxScrollBurst == 3

\* the elements that may carry data-parallax: the page has one or none
ParEls == {1}
ScrollPositions == 0..MaxScroll

NoTransform == [nan |-> FALSE, n |-> 0, d |-> 0]
NoProgress == 0 - 1000

\* rect.top as the layout reports it: the values at and next to both ends of
\* the band, and one in the middle
RectTops == {0 - ElementHeight, 1 - ElementHeight, 0,
             ViewportHeight - 1, ViewportHeight}

\* scrollProgress of handleScroll
ScrollProgress(y, top) ==
    LET elementTop == top + y
    IN y - elementTop + ViewportHeight

InActiveBandAlways(progress, height) == TRUE

\* the condition under which handleScroll writes the transform
InActiveBand(progress, height) ==
    progress > 0 /\ progress < ViewportHeight + height

\* the literal '0.5' of handleScroll
DefaultParallaxSpeed == <<"0", ".", "5">>

\* translateY of handleScroll: scrollProgress * speed * 0.1, negated for 'down'
TranslateYUndamped(progress, speedAttr, dirAttr) ==
    LET speed == ParseFloat(OrDefault(speedAttr, DefaultParallaxSpeed))
        up    == RMul(Num(progress), speed)
    IN IF KindOrDefault(dirAttr, "up") = "down"
       THEN RMul(Num(0 - 1), up)
       ELSE up

TranslateY(progress, speedAttr, dirAttr) ==
    LET speed == ParseFloat(OrDefault(speedAttr, DefaultParallaxSpeed))
        up    == RMul(RMul(Num(progress), speed), Rat(1, 10))
    IN IF KindOrDefault(dirAttr, "up") = "down"
       THEN RMul(Num(0 - 1), up)
       ELSE up

\* handleScroll for one element whose rect.top reads top
HandleScrollElement(old, y, top, speedAttr, dirAttr) ==
    IF InActiveBand(ScrollProgress(y, top), ElementHeight)
    THEN TranslateY(ScrollProgress(y, top), speedAttr, dirAttr)
    ELSE old

SetupParallaxAlwaysListens(found) == 1

\* setupParallax: returns before addEventListener when the scan finds nothing
SetupParallax(found) == IF found = {} THEN 0 ELSE 1

ReadScrollYAtSchedule(current, scheduled) == scheduled

\* window.scrollY inside handleScroll: the position when the callback runs
ReadScrollY(current, scheduled) == current

OnScrollNoFlag(t, q) ==
    IF ~t THEN [ticking |-> FALSE, rafQueue |-> q + 1]
    ELSE [ticking |-> t, rafQueue |-> q]

\* the scroll listener: schedule a frame callback unless one is outstanding
OnScroll(t, q) ==
    IF ~t THEN [ticking |-> TRUE, rafQueue |-> q + 1]
    ELSE [ticking |-> t, rafQueue |-> q]

\* a scroll event
Scroll ==
    /\ scrollsSinceFrame < MaxScrollBurst
    /\ \E y \in ScrollPositions : scrollY' = y
    /\ IF scrollListeners = 0
       THEN UNCHANGED <<ticking, rafQueue, scheduledScrollY>>
       ELSE /\ ticking' = OnScroll(ticking, rafQueue).ticking
            /\ rafQueue' = OnScroll(ticking, rafQueue).rafQueue
            /\ scheduledScrollY' =
                  IF OnScroll(ticking, rafQueue).rafQueue > rafQueue
                  THEN scrollY' ELSE scheduledScrollY
    /\ scrollsSinceFrame' = scrollsSinceFrame + 1
    /\ UNCHANGED <<parSpeed, parDirection, transform, prevTransform, lastProgress,
                   frameRuns, frameScrolls, parallaxElements, scrollListeners,
                   frameScrollY, lastTop, parWrote>>
    /\ UNCHANGED <<ctlVars, cntVars, magVars, txtVars, loadVars, optVars,
                 reinitVars, lineVars, cardVars>>

\* the browser renders a frame: every outstanding callback runs handleScroll
\* and clears the flag
Frame ==
    /\ \E tops \in [ParEls -> RectTops] :
          LET y == ReadScrollY(scrollY, scheduledScrollY)
              ran(el) == rafQueue # 0 /\ el \in parallaxElements
          IN /\ transform' =
                   [el \in ParEls |->
                      IF ran(el)
                      THEN HandleScrollElement(transform[el], y, tops[el],
                                               parSpeed[el], parDirection[el])
                      ELSE transform[el]]
             /\ lastProgress' =
                   [el \in ParEls |->
                      IF ran(el) THEN ScrollProgress(y, tops[el])
                      ELSE lastProgress[el]]
             /\ lastTop' =
                   [el \in ParEls |-> IF ran(el) THEN tops[el] ELSE lastTop[el]]
             /\ parWrote' =
                   [el \in ParEls |->
                      IF ran(el)
                      THEN InActiveBand(ScrollProgress(y, tops[el]), ElementHeight)
                      ELSE parWrote[el]]
             /\ frameScrollY' = IF rafQueue = 0 THEN frameScrollY ELSE y
    /\ prevTransform' = IF rafQueue = 0 THEN prevTransform ELSE transform
    /\ ticking' = IF rafQueue = 0 THEN ticking ELSE FALSE
    /\ frameRuns' = rafQueue
    /\ frameScrolls' = scrollsSinceFrame
    /\ rafQueue' = 0
    /\ scrollsSinceFrame' = 0
    /\ UNCHANGED <<parSpeed, parDirection, scrollY, parallaxElements,
                   scrollListeners, scheduledScrollY>>
    /\ UNCHANGED <<ctlVars, cntVars, magVars, txtVars, loadVars, optVars,
                 reinitVars, lineVars, cardVars>>

ParallaxSpeedValues == {Undefined, <<"2">>, <<"a">>}
ParallaxDirectionValues == {Absent, "down"}

\* the controller and the other effects have nothing to do on this page
CtlIdle ==
    /\ dataAnimate = [e \in Els |-> Absent]
    /\ dataStagger = [e \in Els |-> Absent]
    /\ staggerItem = [e \in Els |-> FALSE]
    /\ staggerDelayAttr = [e \in Els |-> Undefined]
    /\ opacity = [e \in Els |-> ""]
    /\ running = [e \in Els |-> "none"]
    /\ animatedElements = {}
    /\ animateElementRuns = [e \in Els |-> 0]
    /\ staggerRuns = [e \in Els |-> 0]
    /\ staggerCalls = [e \in Els |-> <<>>]
    /\ lastThrew = FALSE
    /\ lastSkipped = {}

\* after setupParallax on a page with or without parallax elements
InitParallax ==
    /\ variant \in Variants
    /\ parallaxElements \in {{}, ParEls}
    /\ parSpeed \in [ParEls -> ParallaxSpeedValues]
    /\ parDirection \in [ParEls -> ParallaxDirectionValues]
    /\ \A el \in ParEls \ parallaxElements :
          parSpeed[el] = Undefined /\ parDirection[el] = Absent
    /\ scrollListeners = SetupParallax(parallaxElements)
    /\ scheduledScrollY = 0
    /\ frameScrollY = 0
    /\ lastTop = [el \in ParEls |-> 0]
    /\ parWrote = [el \in ParEls |-> FALSE]
    /\ ticking = FALSE
    /\ rafQueue = 0
    /\ scrollY = 0
    /\ transform = [el \in ParEls |-> NoTransform]
    /\ prevTransform = [el \in ParEls |-> NoTransform]
    /\ lastProgress = [el \in ParEls |-> NoProgress]
    /\ frameRuns = 0
    /\ frameScrolls = 0
    /\ scrollsSinceFrame = 0
    /\ CtlIdle /\ CntIdle /\ MagIdle /\ TxtIdle /\ LoadIdle /\ OptIdle /\ ReinitIdle
    /\ LineIdle /\ CardIdle

NextParallax == Scroll \/ Frame

SpecParallax == InitParallax /\ [][NextParallax]_vars

----------------------------------------------------------------------------
(* setupCounterAnimations: one data-counter element *)

\* the progress values k / ProgressSteps the primitive delivers
ProgressSteps == 4

ProgressValues == {Rat(k, ProgressSteps) : k \in 0..ProgressSteps}

\* data-counter literals of the model
CounterLiterals == {Undefined, <<>>, <<"a", "b">>, <<"4", "2">>, <<"7">>,
                    <<"-", "5">>, <<"3", ".", "5">>, <<"0", ".", "2", "5">>,
                    <<"5", "e", "-", "1">>, <<"2", "e", "1">>,
                    <<"1", ".", "5", "e", "1">>}

\* the literal '0' of the counter callback
DefaultCounterValue == <<"0">>

\* endValue, isFloat and the isNaN test of the counter callback
EndValue(attr) == OrDefault(attr, DefaultCounterValue)
IsFloat(attr) == Includes(EndValue(attr), ".")
IsNumericAlways(attr) == TRUE
IsNumeric(attr) == ~ParseFloat(EndValue(attr)).nan

\* the value a frame shows at progress p: progress * numericEnd for Motion
\* One; for Anime.js obj.value, rounded to tenths (round: 10) or to an
\* integer (round: 1)
CounterValue(v, attr, p) ==
    LET raw == RMul(p, ParseFloat(EndValue(attr)))
    IN IF v # "anime" THEN raw
       ELSE IF IsFloat(attr) THEN Rat(MathRound(RMul(raw, Num(10))), 10)
       ELSE Num(MathRound(raw))

\* the text the update callback writes at progress p
CounterTextAt(v, attr, p) ==
    IF IsFloat(attr)
    THEN ToFixed1(CounterValue(v, attr, p))
    ELSE IntToString(MathRound(CounterValue(v, attr, p)))

\* the counter observer's callback on a batch of entries of the element: each
\* intersecting entry starts an animation when the target is numeric, and
\* unobserves the element
RECURSIVE CounterStarts(_, _)
CounterStarts(attr, entries) ==
    IF entries = <<>> THEN 0
    ELSE (IF Head(entries) /\ IsNumeric(attr) THEN 1 ELSE 0)
            + CounterStarts(attr, Tail(entries))

\* isIntersecting of the entries one callback gets for one element: the
\* observer queues an entry each time the element's state changes, so the
\* flags alternate; MaxBatch changes after the first entry
EntryFlags ==
    {f \in UNION {[1..n -> BOOLEAN] : n \in 1..(MaxBatch + 1)} :
        \A i \in 1..(Len(f) - 1) : f[i] # f[i + 1]}

CounterCallback ==
    /\ counterObserved
    /\ \E entries \in EntryFlags :
          /\ counterStarted' = counterStarted + CounterStarts(counterAttr, entries)
          /\ counterActive' = counterActive + CounterStarts(counterAttr, entries)
          /\ counterObserved' = ~(\E i \in 1..Len(entries) : entries[i])
    /\ UNCHANGED <<counterAttr, counterText, counterLast>>
    /\ UNCHANGED <<ctlVars, parVars, magVars, txtVars, loadVars, optVars,
                 reinitVars, lineVars, cardVars>>

\* the primitive calls the update callback with a progress; an animation ends
\* with progress 1
CounterUpdate ==
    /\ counterActive >= 1
    /\ \E p \in ProgressValues :
          /\ counterText' = CounterTextAt(variant, counterAttr, p)
          /\ counterLast' = p
          /\ counterActive' = IF p.n = p.d THEN counterActive - 1 ELSE counterActive
    /\ UNCHANGED <<counterAttr, counterObserved, counterStarted>>
    /\ UNCHANGED <<ctlVars, parVars, magVars, txtVars, loadVars, optVars,
                 reinitVars, lineVars, cardVars>>

\* after setupCounterAnimations on a page with one counter showing "0"
InitCounter ==
    /\ variant \in Variants
    /\ counterAttr \in CounterLiterals
    /\ counterText = <<"0">>
    /\ counterLast = NaNNum
    /\ counterObserved = TRUE
    /\ counterStarted = 0
    /\ counterActive = 0
    /\ CtlIdle /\ ParIdle /\ MagIdle /\ TxtIdle /\ LoadIdle /\ OptIdle /\ ReinitIdle
    /\ LineIdle /\ CardIdle

NextCounter == CounterCallback \/ CounterUpdate

SpecCounter == InitCounter /\ [][NextCounter]_vars

----------------------------------------------------------------------------
(* setupMagneticEffect: one data-magnetic element *)

\* pointer coordinates 0..MaxPointer, and mousemove events handled
MaxPointer == 1
MaxMoves == 2
\* the element's layout box: left and top edge, width and height, in px
MagnetLeft == 0
MagnetTop == 0
MagnetWidth == 2
MagnetHeight == 2

PointerPositions == 0..MaxPointer

\* the literal '0.3' of setupMagneticEffect, and the constant of the minimal build
DefaultMagneticStrength == <<"0", ".", "3">>
MinimalMagneticStrength == Rat(1, 10)

\* strength of setupMagneticEffect
MagneticStrength(v, attr) ==
    IF v = "minimal" THEN MinimalMagneticStrength
    ELSE ParseFloat(OrDefault(attr, DefaultMagneticStrength))

\* getBoundingClientRect(): the layout box moved by the offset the element shows
MagnetRect(applied) ==
    [left   |-> RAdd(Num(MagnetLeft), applied.x),
     top    |-> RAdd(Num(MagnetTop), applied.y),
     width  |-> Num(MagnetWidth),
     height |-> Num(MagnetHeight)]

\* the mousemove listener: the animation it issues
OnMouseMove(v, attr, applied, clientX, clientY) ==
    LET rect     == MagnetRect(applied)
        x        == RSub(RSub(Num(clientX), rect.left), RDivInt(rect.width, 2))
        y        == RSub(RSub(Num(clientY), rect.top), RDivInt(rect.height, 2))
        strength == MagneticStrength(v, attr)
    IN [x |-> RMul(x, strength), y |-> RMul(y, strength)]

OnMouseLeaveKeepsOffset(last) == last

\* the mouseleave listener: the animation it issues
OnMouseLeave(last) == [x |-> Num(0), y |-> Num(0)]

MouseMove ==
    /\ magneticMoves < MaxMoves
    /\ \E cx \in PointerPositions, cy \in PointerPositions :
          /\ magneticAnim' = OnMouseMove(variant, magneticAttr, magneticApplied, cx, cy)
          /\ magneticPointer' = [x |-> cx, y |-> cy]
    /\ magneticLastEvent' = "move"
    /\ magneticMoves' = magneticMoves + 1
    /\ UNCHANGED <<magneticAttr, magneticApplied>>
    /\ UNCHANGED <<ctlVars, parVars, cntVars, txtVars, loadVars, optVars,
                 reinitVars, lineVars, cardVars>>

MouseLeave ==
    /\ magneticAnim' = OnMouseLeave(magneticAnim)
    /\ magneticLastEvent' = "leave"
    /\ UNCHANGED <<magneticAttr, magneticApplied, magneticMoves, magneticPointer>>
    /\ UNCHANGED <<ctlVars, parVars, cntVars, txtVars, loadVars, optVars,
                 reinitVars, lineVars, cardVars>>

\* the animation issued last reaches its target (an offset that is no number
\* moves nothing)
MagneticSettle ==
    /\ magneticLastEvent # "none"
    /\ ~magneticAnim.x.nan /\ ~magneticAnim.y.nan
    /\ magneticApplied # magneticAnim
    /\ magneticApplied' = magneticAnim
    /\ UNCHANGED <<magneticAttr, magneticAnim, magneticLastEvent, magneticMoves,
                   magneticPointer>>
    /\ UNCHANGED <<ctlVars, parVars, cntVars, txtVars, loadVars, optVars,
                 reinitVars, lineVars, cardVars>>

MagneticValues == {Undefined, <<"1">>, <<"a">>}

\* after setupMagneticEffect on a page with one magnetic element at rest
InitMagnetic ==
    /\ variant \in Variants
    /\ magneticAttr \in MagneticValues
    /\ magneticAnim = [x |-> Num(0), y |-> Num(0)]
    /\ magneticApplied = [x |-> Num(0), y |-> Num(0)]
    /\ magneticLastEvent = "none"
    /\ magneticMoves = 0
    /\ magneticPointer = [x |-> 0, y |-> 0]
    /\ CtlIdle /\ ParIdle /\ CntIdle /\ TxtIdle /\ LoadIdle /\ OptIdle /\ ReinitIdle
    /\ LineIdle /\ CardIdle

NextMagnetic == MouseMove \/ MouseLeave \/ MagneticSettle

SpecMagnetic == InitMagnetic /\ [][NextMagnetic]_vars

----------------------------------------------------------------------------
(* setupTextRevealAnimations: one data-text-reveal element *)

\* texts over TextAlphabet of up to MaxTextLen characters
MaxTextLen == 3

TextAlphabet == {"a", " "}
HiThere == <<"H", "i", " ", "t", "h", "e", "r", "e">>
Texts == UNION {[1..n -> TextAlphabet] : n \in 0..MaxTextLen} \cup {HiThere}
RevealModes == {"", "chars", "words", "lines"}

\* the no-break space that the parser makes of &nbsp;
Nbsp == "nbsp"
NbspEntity == <<"&", "n", "b", "s", "p", ";">>

CharMarkupRaw(char) == <<char>>

\* the content of a char-reveal span: char === ' ' ? '&nbsp;' : char
CharMarkup(char) == IF char = " " THEN NbspEntity ELSE <<char>>

\* the text the HTML parser makes of a span's content
RECURSIVE ParsedText(_)
ParsedText(m) ==
    IF m = <<>> THEN <<>>
    ELSE IF Len(m) >= Len(NbspEntity) /\ SubSeq(m, 1, Len(NbspEntity)) = NbspEntity
    THEN <<Nbsp>> \o ParsedText(DropN(m, Len(NbspEntity)))
    ELSE <<Head(m)>> \o ParsedText(Tail(m))

\* text.split('').map(...): one span per character
SplitChars(text) == [i \in 1..Len(text) |-> ParsedText(CharMarkup(text[i]))]

\* text.split(' '): the pieces between single spaces, empty ones included
RECURSIVE SplitOnSpace(_, _)
SplitOnSpace(text, piece) ==
    IF text = <<>> THEN <<piece>>
    ELSE IF Head(text) = " " THEN <<piece>> \o SplitOnSpace(Tail(text), <<>>)
    ELSE SplitOnSpace(Tail(text), Append(piece, Head(text)))

\* text.split(' ').map(...): one span per piece
SplitWords(text) ==
    LET pieces == SplitOnSpace(text, <<>>)
    IN [i \in 1..Len(pieces) |-> ParsedText(pieces[i])]

\* the spans the callback leaves in the element for one intersecting entry
RevealUnits(mode, text) ==
    IF KindOrDefault(mode, "words") = "chars" THEN SplitChars(text)
    ELSE SplitWords(text)

\* element.textContent: the units' texts one after the other
RECURSIVE Concat(_)
Concat(units) == IF units = <<>> THEN <<>> ELSE Head(units) \o Concat(Tail(units))

\* the text observer's callback on a batch of entries of the element: each
\* intersecting entry splits the current textContent and unobserves
RECURSIVE RevealFrom(_, _)
RevealFrom(st, entries) ==
    IF entries = <<>> THEN st
    ELSE IF Head(entries)
    THEN LET units == RevealUnits(revealMode, st.content)
         IN RevealFrom([content |-> Concat(units), units |-> units,
                        runs |-> st.runs + 1, observed |-> FALSE],
                       Tail(entries))
    ELSE RevealFrom(st, Tail(entries))

RevealCallback ==
    /\ variant # "minimal"
    /\ revealObserved
    /\ \E entries \in EntryFlags :
          LET st == RevealFrom([content |-> revealContent, units |-> revealUnits,
                                runs |-> revealRuns, observed |-> revealObserved],
                               entries)
          IN /\ revealContent' = st.content
             /\ revealUnits' = st.units
             /\ revealRuns' = st.runs
             /\ revealObserved' = st.observed
    /\ UNCHANGED <<revealText, revealMode, revealOpacity, revealTimer>>
    /\ UNCHANGED <<ctlVars, parVars, cntVars, magVars, loadVars, optVars,
                 reinitVars, lineVars, cardVars>>

TimerKeepsOpacity(o) == o

\* the timer callback: style.opacity = '1'
TimerOpacity(o) == "1"

\* the 100 ms timer of the setup fires
RevealTimerFires ==
    /\ revealTimer = "pending"
    /\ revealOpacity' = TimerOpacity(revealOpacity)
    /\ revealTimer' = "fired"
    /\ UNCHANGED <<revealText, revealMode, revealContent, revealUnits,
                   revealObserved, revealRuns>>
    /\ UNCHANGED <<ctlVars, parVars, cntVars, magVars, loadVars, optVars,
                 reinitVars, lineVars, cardVars>>

\* after setupTextRevealAnimations on a page with one text element (the
\* minimal build sets nothing up)
InitText ==
    /\ variant \in Variants
    /\ revealText \in Texts
    /\ revealMode \in RevealModes
    /\ revealContent = revealText
    /\ revealUnits = <<>>
    /\ revealObserved = (variant # "minimal")
    /\ revealRuns = 0
    /\ revealOpacity = (IF variant = "minimal" THEN "" ELSE "0")
    /\ revealTimer = (IF variant = "minimal" THEN "none" ELSE "pending")
    /\ CtlIdle /\ ParIdle /\ CntIdle /\ MagIdle /\ LoadIdle /\ OptIdle /\ ReinitIdle
    /\ LineIdle /\ CardIdle

NextText == RevealCallback \/ RevealTimerFires

SpecText == InitText /\ [][NextText]_vars

----------------------------------------------------------------------------
(* Auto-initialisation: the module's top-level code, initScrollAnimations and
   the controller's init *)

ReadyStates == {"loading", "interactive", "complete"}

\* what the initialisation code reads and writes
LoadState == [readyState |-> readyState, listeners |-> dclListeners,
              initRuns |-> initRuns, runs |-> setupRuns, early |-> setupEarly]

\* one run of a setup function
RunSetup(ld, f) ==
    [ld EXCEPT !.runs[f] = @ + 1,
               !.early = @ \/ ld.readyState = "loading"]

ControllerInitAlwaysDefers(ld) ==
    [ld EXCEPT !.listeners = Append(@, "setupObservers")]

\* ScrollAnimationController.init
ControllerInit(ld) ==
    IF ld.readyState = "loading"
    THEN [ld EXCEPT !.listeners = Append(@, "setupObservers")]
    ELSE RunSetup(ld, "setupObservers")

RECURSIVE RunSetups(_, _)
RunSetups(ld, fs) ==
    IF fs = <<>> THEN ld ELSE RunSetups(RunSetup(ld, Head(fs)), Tail(fs))

\* initScrollAnimations()
InitScrollAnimations(ld) ==
    RunSetups(ControllerInit([ld EXCEPT !.initRuns = @ + 1]), AncillarySetups)

\* the top-level code under `typeof window !== 'undefined'`
AutoInitialize(ld) ==
    IF ld.readyState = "loading"
    THEN [ld EXCEPT !.listeners = Append(@, "initScrollAnimations")]
    ELSE InitScrollAnimations(ld)

\* a registered listener is called
RunListener(ld, name) ==
    IF name = "initScrollAnimations" THEN InitScrollAnimations(ld)
    ELSE RunSetup(ld, "setupObservers")

\* the dispatch of DOMContentLoaded to the listeners registered before it
RECURSIVE DispatchFrom(_, _)
DispatchFrom(ld, names) ==
    IF names = <<>> THEN ld
    ELSE DispatchFrom(RunListener(ld, Head(names)), Tail(names))

CommitLoad(ld) ==
    /\ readyState' = ld.readyState
    /\ dclListeners' = ld.listeners
    /\ initRuns' = ld.initRuns
    /\ setupRuns' = ld.runs
    /\ setupEarly' = ld.early
    /\ opacity' = IF ld.runs["setupObservers"] > setupRuns["setupObservers"]
                  THEN SetupOpacity(variant, dataAnimate)
                  ELSE opacity
    /\ UNCHANGED <<variant, dataAnimate, dataStagger, staggerItem, staggerDelayAttr,
                   running, animatedElements, animateElementRuns, staggerRuns,
                   staggerCalls, lastThrew, lastSkipped>>
    /\ otherSeen' = IF ld.initRuns > initRuns /\ ld.initRuns > 1
                    THEN otherSeen \o [k \in 1..(ld.initRuns - initRuns) |-> {}]
                    ELSE otherSeen
    /\ UNCHANGED <<parVars, cntVars, magVars, txtVars, optVars, lineVars, cardVars>>

\* the browser evaluates the module
EvaluateModule ==
    /\ ~moduleEvaluated
    /\ moduleEvaluated' = TRUE
    /\ UNCHANGED explicitInits
    /\ CommitLoad(AutoInitialize(LoadState))

\* the document has been parsed: readyState becomes 'interactive' and
\* DOMContentLoaded is dispatched
DomContentLoaded ==
    /\ readyState = "loading"
    /\ UNCHANGED <<moduleEvaluated, explicitInits>>
    /\ CommitLoad(DispatchFrom([LoadState EXCEPT !.readyState = "interactive"],
                               dclListeners))

\* the page has loaded: readyState becomes 'complete'
WindowLoad ==
    /\ readyState = "interactive"
    /\ UNCHANGED <<moduleEvaluated, explicitInits>>
    /\ CommitLoad([LoadState EXCEPT !.readyState = "complete"])

\* a page before the module is evaluated, in any state of its document
InitLoad ==
    /\ variant \in Variants
    /\ dataAnimate \in [Els -> AnimateValues]
    /\ \A e \in Els \ EntranceCandidates : dataAnimate[e] = Absent
    /\ dataStagger = [e \in Els |-> Absent]
    /\ staggerItem = [e \in Els |-> FALSE]
    /\ staggerDelayAttr = [e \in Els |-> Undefined]
    /\ opacity = [e \in Els |-> ""]
    /\ running = [e \in Els |-> "none"]
    /\ animatedElements = {}
    /\ animateElementRuns = [e \in Els |-> 0]
    /\ staggerRuns = [e \in Els |-> 0]
    /\ staggerCalls = [e \in Els |-> <<>>]
    /\ lastThrew = FALSE
    /\ lastSkipped = {}
    /\ readyState \in ReadyStates
    /\ moduleEvaluated = FALSE
    /\ dclListeners = <<>>
    /\ initRuns = 0
    /\ setupRuns = [f \in SetupNames |-> 0]
    /\ setupEarly = FALSE
    /\ ParIdle /\ CntIdle /\ MagIdle /\ TxtIdle /\ OptIdle /\ ReinitIdle
    /\ LineIdle /\ CardIdle

NextLoad == EvaluateModule \/ DomContentLoaded \/ WindowLoad

SpecLoad == InitLoad /\ [][NextLoad]_vars

----------------------------------------------------------------------------
(* initScrollAnimations called by the host page as well *)

\* calls of the exported function the host page makes
MaxExplicitInits == 1

\* animatedElements of the k-th controller constructed on the page
SeenOf(k) == IF k = 1 THEN animatedElements ELSE otherSeen[k - 1]

\* the host page imports the module and calls initScrollAnimations()
ExplicitInit ==
    /\ moduleEvaluated
    /\ explicitInits < MaxExplicitInits
    /\ explicitInits' = explicitInits + 1
    /\ UNCHANGED moduleEvaluated
    /\ CommitLoad(InitScrollAnimations(LoadState))

\* the batches that hold one entry for a target at most
SingleEntryBatches(targets) ==
    {b \in Batches(targets) :
        \A i, j \in 1..Len(b) : b[i].target = b[j].target => i = j}

\* the entrance observer of the k-th controller reports a batch; the observer
\* exists once the controller's setupObservers has run
ControllerIntersection ==
    /\ readyState # "loading"
    /\ \E k \in 1..initRuns, entries \in SingleEntryBatches(EntranceTargets) :
          LET st == HandleIntersectionFrom([CtlState EXCEPT !.seen = SeenOf(k)],
                                          entries)
          IN /\ animatedElements' = IF k = 1 THEN st.seen ELSE animatedElements
             /\ otherSeen' = IF k = 1 THEN otherSeen
                             ELSE [otherSeen EXCEPT ![k - 1] = st.seen]
             /\ opacity' = st.opacity
             /\ running' = st.running
             /\ animateElementRuns' = st.aRuns
             /\ lastThrew' = st.threw
             /\ lastSkipped' = st.skipped
    /\ UNCHANGED <<variant, dataAnimate, dataStagger, staggerItem, staggerDelayAttr,
                   staggerRuns, staggerCalls, explicitInits>>
    /\ UNCHANGED <<parVars, cntVars, magVars, txtVars, loadVars, optVars,
                   lineVars, cardVars>>

NextReinit ==
    \/ EvaluateModule \/ DomContentLoaded \/ WindowLoad
    \/ ExplicitInit \/ ControllerIntersection

SpecReinit == InitLoad /\ [][NextReinit]_vars

----------------------------------------------------------------------------
(* animateElement: the options handed to the animation primitive *)

\* data-animate values of the revealed element
OptionKinds == {"", "fade-up", "zoom-in", "flip-up", "slide-reveal", "bounce-in",
                "shake"}
\* data-delay and data-duration values of the revealed element
OptionDelays == {Undefined, <<>>, <<"2", "0", "0">>, <<"a", "b">>}
OptionDurations == {Undefined, <<"5", "0", "0">>, <<"a", "b">>}

EntranceDefaultDelay == <<"0">>
EntranceDefaultDuration == <<"8", "0", "0">>

\* const delay: parseInt(element.dataset.delay || '0'), divided by 1000 where
\* the primitive counts seconds
EntranceDelay(v, attr) ==
    LET ms == ParseInt(OrDefault(attr, EntranceDefaultDelay))
    IN IF v = "anime" THEN ms ELSE RDivInt(ms, 1000)

\* const duration: parseInt(element.dataset.duration || '800') (/ 1000 for
\* Motion One); the minimal build has the constant 0.3
EntranceBaseDuration(v, attr) ==
    LET ms == ParseInt(OrDefault(attr, EntranceDefaultDuration))
    IN IF v = "minimal" THEN Rat(3, 10)
       ELSE IF v = "anime" THEN ms
       ELSE RDivInt(ms, 1000)

\* what the preset's entry adds to duration, in the unit of the build
PresetExtra(v, key) ==
    IF v = "minimal" THEN Num(0)
    ELSE IF key \in {"flip-up", "slide-reveal"}
         THEN (IF v = "anime" THEN Num(200) ELSE Rat(2, 10))
    ELSE IF key = "bounce-in"
         THEN (IF v = "anime" THEN Num(400) ELSE Rat(4, 10))
    ELSE Num(0)

EntranceDurationNoExtra(v, attr, key) == EntranceBaseDuration(v, attr)

\* the duration of the preset's entry of the animations table
EntranceDuration(v, attr, key) ==
    RAdd(EntranceBaseDuration(v, attr), PresetExtra(v, key))

\* the call animateElement makes for an element with these attributes
EntranceCall(v, kindAttr, delayAttr, durationAttr) ==
    LET key == KindOrDefault(kindAttr, "fade-up")
    IN IF Lookup(PresetNames, key) = "own"
       THEN [preset   |-> key,
             delay    |-> EntranceDelay(v, delayAttr),
             duration |-> EntranceDuration(v, durationAttr, key),
             unit     |-> PrimitiveUnit(v)]
       ELSE NoCall

\* animateElement(element) for the element of this page
RevealWithOptions ==
    /\ optCall = NoCall
    /\ optCall' = EntranceCall(variant, optKind, optDelay, optDuration)
    /\ optCall' # NoCall
    /\ UNCHANGED <<optKind, optDelay, optDuration>>
    /\ UNCHANGED <<ctlVars, parVars, cntVars, magVars, txtVars, loadVars,
                   reinitVars, lineVars, cardVars>>

InitEntrance ==
    /\ variant \in Variants
    /\ optKind \in OptionKinds
    /\ optDelay \in OptionDelays
    /\ optDuration \in OptionDurations
    /\ optCall = NoCall
    /\ CtlIdle /\ ParIdle /\ CntIdle /\ MagIdle /\ TxtIdle /\ LoadIdle /\ ReinitIdle
    /\ LineIdle /\ CardIdle

NextEntrance == RevealWithOptions

SpecEntrance == InitEntrance /\ [][NextEntrance]_vars

----------------------------------------------------------------------------
(* setupLineDrawAnimations: one data-line-draw SVG *)

\* matched children of the SVG, and the lengths getTotalLength reports
MaxShapes == 2
MaxShapeLength == 2

\* a matched child: an SVGGeometryElement with its total length, or an element
\* of another class that carries one of the selector's tag names
ShapeValues ==
    {[geometry |-> FALSE, length |-> 0]}
       \cup {[geometry |-> TRUE, length |-> l] : l \in 0..MaxShapeLength}

\* the matched children before shape i that are geometry elements
GeometryBefore(shapes, i) == Cardinality({j \in 1..(i - 1) : shapes[j].geometry})

\* strokeDasharray and strokeDashoffset after the reveal: length.toString()
\* under `path instanceof SVGGeometryElement`, what it was otherwise
DashAfterReveal(shapes, dash) ==
    [i \in 1..Len(shapes) |->
        IF shapes[i].geometry THEN IntToString(shapes[i].length) ELSE dash[i]]

\* the draw animations one reveal issues.  Motion One: pathArray holds the
\* geometry elements only, and the item at index k is animated from a timer of
\* k * 100 ms.  Anime.js: one call with targets: paths, every matched child,
\* and delay: anime.stagger(100) over that list
LineDraws(v, shapes) ==
    IF v = "anime"
    THEN {[target |-> i, delay |-> (i - 1) * 100] : i \in 1..Len(shapes)}
    ELSE {[target |-> i, delay |-> GeometryBefore(shapes, i) * 100] :
             i \in {j \in 1..Len(shapes) : shapes[j].geometry}}

\* the number of intersecting entries of a batch
RECURSIVE Intersecting(_)
Intersecting(entries) ==
    IF entries = <<>> THEN 0
    ELSE (IF Head(entries) THEN 1 ELSE 0) + Intersecting(Tail(entries))

\* the line observer's callback on a batch of entries of the SVG
LineCallback ==
    /\ lineObserved
    /\ \E entries \in EntryFlags :
          LET n == Intersecting(entries)
          IN /\ lineRuns' = lineRuns + n
             /\ lineDashArray' = IF n = 0 THEN lineDashArray
                                 ELSE DashAfterReveal(lineShapes, lineDashArray)
             /\ lineDashOffset' = IF n = 0 THEN lineDashOffset
                                  ELSE DashAfterReveal(lineShapes, lineDashOffset)
             /\ linePending' = IF n = 0 THEN linePending
                               ELSE linePending \cup LineDraws(variant, lineShapes)
             /\ lineObserved' = (n = 0)
    /\ UNCHANGED <<lineShapes, lineStarted>>
    /\ UNCHANGED <<ctlVars, parVars, cntVars, magVars, txtVars, loadVars, optVars,
                   reinitVars, cardVars>>

\* time passes: the pending draw with the least delay starts
LineDrawStarts ==
    /\ \E d \in linePending :
          /\ \A o \in linePending : d.delay <= o.delay
          /\ linePending' = linePending \ {d}
          /\ lineStarted' = lineStarted \cup {d}
    /\ UNCHANGED <<lineShapes, lineDashArray, lineDashOffset, lineObserved, lineRuns>>
    /\ UNCHANGED <<ctlVars, parVars, cntVars, magVars, txtVars, loadVars, optVars,
                   reinitVars, cardVars>>

\* after setupLineDrawAnimations on a page with one data-line-draw SVG (the
\* minimal build returns before it observes anything)
InitLine ==
    /\ variant \in Variants
    /\ lineShapes \in UNION {[1..n -> ShapeValues] : n \in 0..MaxShapes}
    /\ lineDashArray = [i \in 1..Len(lineShapes) |-> Undefined]
    /\ lineDashOffset = [i \in 1..Len(lineShapes) |-> Undefined]
    /\ linePending = {}
    /\ lineStarted = {}
    /\ lineObserved = (variant # "minimal")
    /\ lineRuns = 0
    /\ CtlIdle /\ ParIdle /\ CntIdle /\ MagIdle /\ TxtIdle /\ LoadIdle
    /\ OptIdle /\ ReinitIdle /\ CardIdle

NextLine == LineCallback \/ LineDrawStarts

SpecLine == InitLine /\ [][NextLine]_vars

----------------------------------------------------------------------------
(* setupCardAnimations: one .anime-card element *)

\* mouseenter and mouseleave events of the card
MaxHoverEvents == 4

\* the children the listeners look up
CardChildren == {"image", "overlay", "content"}

OnCardEnterStopsAtAbsent(v, parts) ==
    IF v = "minimal" \/ "image" \notin parts THEN {}
    ELSE IF "overlay" \notin parts THEN {"image"}
    ELSE parts

\* the mouseenter listener: the children it animates, each under its own
\* `if (child)`; the minimal build's setup returns before it adds a listener
OnCardEnter(v, parts) ==
    IF v = "minimal" THEN {}
    ELSE {c \in CardChildren : c \in parts}

\* the mouseleave listener: image and overlay only
OnCardLeave(v, parts) ==
    IF v = "minimal" THEN {}
    ELSE {c \in {"image", "overlay"} : c \in parts}

\* the animations issued so far, after one more event of the given kind
CardAfter(kind, animated) ==
    /\ cardLast' = [c \in CardChildren |-> IF c \in animated THEN kind ELSE cardLast[c]]
    /\ cardIssued' = [c \in CardChildren |->
                         IF c \in animated THEN cardIssued[c] + 1 ELSE cardIssued[c]]
    /\ cardEvents' = cardEvents + 1
    /\ UNCHANGED cardParts
    /\ UNCHANGED <<ctlVars, parVars, cntVars, magVars, txtVars, loadVars, optVars,
                   reinitVars, lineVars>>

\* the pointer enters the card
CardMouseEnter ==
    /\ ~cardHover
    /\ cardEvents < MaxHoverEvents
    /\ cardHover' = TRUE
    /\ CardAfter("enter", OnCardEnter(variant, cardParts))

\* the pointer leaves the card
CardMouseLeave ==
    /\ cardHover
    /\ cardEvents < MaxHoverEvents
    /\ cardHover' = FALSE
    /\ CardAfter("leave", OnCardLeave(variant, cardParts))

\* after setupCardAnimations on a page with one card, the pointer elsewhere
InitCard ==
    /\ variant \in Variants
    /\ cardParts \in SUBSET CardChildren
    /\ cardHover = FALSE
    /\ cardEvents = 0
    /\ cardLast = [c \in CardChildren |-> "none"]
    /\ cardIssued = [c \in CardChildren |-> 0]
    /\ CtlIdle /\ ParIdle /\ CntIdle /\ MagIdle /\ TxtIdle /\ LoadIdle
    /\ OptIdle /\ ReinitIdle /\ LineIdle

NextCard == CardMouseEnter \/ CardMouseLeave

SpecCard == InitCard /\ [][NextCard]_vars

----------------------------------------------------------------------------
(* Claims *)

\* C1: over any sequence of callback batches (enter, exit, re-enter, the same
\* target twice in a batch) animateElement is invoked at most once per element.
C1_AnimateAtMostOnce == \A e \in Els : animateElementRuns[e] <= 1

\* an element whose entrance animation ran once and has ended
C1_Witness ==
    \E e \in Els : animateElementRuns[e] = 1 /\ running[e] = "none" /\ opacity[e] = "1"

\* data-animate names no preset (and is not the empty default)
UnknownKind(e) == dataAnimate[e] \notin PresetNames \cup {Absent, ""}

\* C2 (as claimed): in every build, revealing an element whose data-animate is
\* not a preset name throws nothing and never leaves the element at opacity 0
\* with no animation that restores it.
C2_UnknownKindStaysVisible ==
    /\ ~lastThrew
    /\ \A e \in Els :
          (UnknownKind(e) /\ ~staggerItem[e] /\ animateElementRuns[e] >= 1)
             => (opacity[e] # "0" \/ running[e] = "fade")

\* the elements a container's one call must target: its data-stagger-item
\* descendants
ItemSet(c) == {e \in Descendants(c) : staggerItem[e]}

\* C3: animateStaggerChildren runs at most once per container and issues
\* exactly one primitive call, whose targets are all the container's
\* data-stagger-item descendants in document order.
C3_OneStaggerCall ==
    \A c \in Els :
       /\ staggerRuns[c] <= 1
       /\ Len(staggerCalls[c]) = staggerRuns[c]
       /\ \A k \in 1..Len(staggerCalls[c]) :
             LET t == staggerCalls[c][k].targets
             IN /\ {t[i] : i \in 1..Len(t)} = ItemSet(c)
                /\ Len(t) = Cardinality(ItemSet(c))
                /\ \A i, j \in 1..Len(t) : i < j => t[i] < t[j]

\* a container revealed with two or more items
C3_Witness ==
    \E c \in Els : staggerRuns[c] = 1 /\ Len(staggerCalls[c][1].targets) >= 2

\* the delay the markup declares: data-stagger-delay, 100 when it is not given
DeclaredStaggerDelay(attr) ==
    IF attr = Undefined \/ attr = <<>> THEN Num(100) ELSE ParseInt(attr)

\* a delay of a primitive call, in ms
DelayMs(call, i) ==
    IF call.unit = "s" THEN RMul(call.delays[i], Num(1000)) ELSE call.delays[i]

C5_ScrollCoalescing ==
    /\ rafQueue <= 1
    /\ frameRuns <= 1
    /\ ticking <=> (rafQueue = 1)

\* a frame that answered a burst of scroll events with one recomputation
C5_Witness == frameRuns = 1 /\ frameScrolls >= 2

\* progress outside the active band, as the claim words it
OutsideBand(progress) ==
    progress <= 0 \/ progress >= ViewportHeight + ElementHeight

\* C6: a recomputation with the progress outside the band leaves the transform
\* as it was; one with the progress inside the band writes the offset of that
\* progress.
C6_OutOfBandUntouched ==
    \A el \in ParEls :
       lastProgress[el] # NoProgress =>
          IF OutsideBand(lastProgress[el])
          THEN transform[el] = prevTransform[el]
          ELSE /\ transform[el] # NoTransform
               /\ transform[el] =
                     TranslateY(lastProgress[el], parSpeed[el], parDirection[el])

\* an element that was given an offset and then recomputed outside the band
C6_Witness ==
    \E el \in ParEls :
       /\ lastProgress[el] # NoProgress
       /\ OutsideBand(lastProgress[el])
       /\ transform[el] # NoTransform

\* an optional minus sign and then digits only
IsIntegerString(t) ==
    LET b == IF t # <<>> /\ Head(t) = "-" THEN Tail(t) ELSE t
    IN b # <<>> /\ \A i \in 1..Len(b) : IsDigit(b[i])

\* an integer string, a point, and exactly one digit
HasOneDecimal(t) ==
    /\ Len(t) >= 3
    /\ t[Len(t) - 1] = "."
    /\ IsDigit(t[Len(t)])
    /\ IsIntegerString(SubSeq(t, 1, Len(t) - 2))

\* C7 (as claimed): for a numeric literal without a decimal point every text
\* written is an integer string and the text written at progress 1 equals the
\* target; for a literal with a decimal point every text written has exactly
\* one digit after the point ("42" ends as "42", "3.5" as "3.5").
C7_CounterTextFormat ==
    (~counterLast.nan /\ IsNumeric(counterAttr)) =>
       /\ Includes(EndValue(counterAttr), ".") => HasOneDecimal(counterText)
       /\ ~Includes(EndValue(counterAttr), ".") =>
             /\ IsIntegerString(counterText)
             /\ REq(counterLast, Num(1)) =>
                   REq(ParseFloat(counterText), ParseFloat(EndValue(counterAttr)))
       /\ (REq(counterLast, Num(1)) /\ counterAttr = <<"4", "2">>)
             => counterText = <<"4", "2">>
       /\ (REq(counterLast, Num(1)) /\ counterAttr = <<"3", ".", "5">>)
             => counterText = <<"3", ".", "5">>

\* a literal made of an optional sign and digits
IsPlainInteger(lit) ==
    LET b == IF lit # <<>> /\ Head(lit) \in {"-", "+"} THEN Tail(lit) ELSE lit
    IN b # <<>> /\ \A i \in 1..Len(b) : IsDigit(b[i])

\* C7 (amended): for a numeric literal without a decimal point every text
\* written is an integer string, and the text written at progress 1 equals the
\* target when the literal is an optional sign and digits only (an exponent
\* form such as "5e-1" ends as the target rounded to an integer); for a literal
\* with a decimal point every text written has exactly one digit after the
\* point.
C7_CounterTextFormatPlain ==
    (~counterLast.nan /\ IsNumeric(counterAttr)) =>
       /\ Includes(EndValue(counterAttr), ".") => HasOneDecimal(counterText)
       /\ ~Includes(EndValue(counterAttr), ".") =>
             /\ IsIntegerString(counterText)
             /\ (REq(counterLast, Num(1)) /\ IsPlainInteger(EndValue(counterAttr))) =>
                   REq(ParseFloat(counterText), ParseFloat(EndValue(counterAttr)))
             /\ REq(counterLast, Num(1)) =>
                   counterText = IntToString(MathRound(ParseFloat(EndValue(counterAttr))))
       /\ (REq(counterLast, Num(1)) /\ counterAttr = <<"4", "2">>)
             => counterText = <<"4", "2">>
       /\ (REq(counterLast, Num(1)) /\ counterAttr = <<"3", ".", "5">>)
             => counterText = <<"3", ".", "5">>

\* the counter of target "3.5" has run to progress 1 and shows "3.5"
C7_Witness ==
    /\ counterAttr = <<"3", ".", "5">>
    /\ REq(counterLast, Num(1))
    /\ counterText = <<"3", ".", "5">>
    /\ counterActive = 0

\* C8: after any mousemove events followed by a mouseleave the animation issued
\* last targets the offset (0,0), whatever the last mousemove asked for, and it
\* stays the last one until the next mousemove.
C8_LeaveReturnsToZero ==
    magneticLastEvent = "leave" =>
       /\ REq(magneticAnim.x, Num(0))
       /\ REq(magneticAnim.y, Num(0))

\* the pointer left while the element was still displaced by a mousemove
C8_Witness ==
    /\ magneticLastEvent = "leave"
    /\ magneticMoves >= 1
    /\ ~REq(magneticApplied.x, Num(0))
    /\ REq(magneticAnim.x, Num(0))

\* C9: in chars mode a text of length n is revealed as n wrapped units in the
\* order of the text, the unit at index i holding character i, a no-break space
\* standing for each space.
C9_CharsOneUnitPerCharacter ==
    (revealMode = "chars" /\ revealRuns >= 1) =>
       /\ Len(revealUnits) = Len(revealText)
       /\ \A i \in 1..Len(revealText) :
             revealUnits[i] = IF revealText[i] = " " THEN <<Nbsp>> ELSE <<revealText[i]>>

\* "Hi there" revealed in chars mode
C9_Witness ==
    /\ revealMode = "chars"
    /\ revealText = HiThere
    /\ revealRuns >= 1
    /\ Len(revealUnits) = 8

\* the whitespace-delimited words of a text, in order
RECURSIVE WordsOf(_, _)
WordsOf(text, word) ==
    IF text = <<>> THEN (IF word = <<>> THEN <<>> ELSE <<word>>)
    ELSE IF Head(text) = " "
    THEN (IF word = <<>> THEN <<>> ELSE <<word>>) \o WordsOf(Tail(text), <<>>)
    ELSE WordsOf(Tail(text), Append(word, Head(text)))

\* C10 (as claimed): in words mode (data-text-reveal empty or not 'chars') the
\* first reveal leaves exactly one wrapped unit per whitespace-delimited word
\* of the text, in order, and no empty unit, whatever the whitespace of the
\* text ("Hi there" gives "Hi" and "there").
C10_WordsOneUnitPerWord ==
    (revealMode # "chars" /\ revealRuns = 1) =>
       /\ revealUnits = WordsOf(revealText, <<>>)
       /\ \A i \in 1..Len(revealUnits) : revealUnits[i] # <<>>

\* the stagger containers that hold element e as one of their items
GroupsOf(e) == {c \in Els : dataStagger[c] # Absent /\ e \in Descendants(c) /\ staggerItem[e]}

\* C11 (as claimed): for every value of data-stagger the one call issued for a
\* revealed container animates each child's opacity to 1, so a child the
\* dispatcher has hidden is either visible again or has a fade in flight.
C11_StaggerChildrenReturnToVisible ==
    \A c \in Els :
       staggerRuns[c] >= 1 =>
          \A e \in Els :
             (c \in GroupsOf(e) /\ opacity[e] = "0") => running[e] = "fade"

\* C13 (as claimed): when a dispatch throws inside a callback batch, the
\* remaining intersecting, not yet seen entries of the batch are dispatched
\* all the same: the callback leaves none of them undispatched.
C13_BatchSurvivesFailure == lastThrew => lastSkipped = {}

\* C15 (as claimed): for an element carrying both data-animate and
\* data-stagger, each trigger fires on an intersecting entry exactly when that
\* trigger has not dispatched the element yet, whatever the other has recorded.
C15_IndependentSeenScopes ==
    \A e \in Els :
       (dataAnimate[e] # Absent /\ dataStagger[e] # Absent) =>
          LET fires == ShouldReveal(CtlState, [target |-> e, isIntersecting |-> TRUE])
          IN /\ fires <=> (animateElementRuns[e] = 0)
             /\ fires <=> (staggerRuns[e] = 0)

\* the intersecting entries of a batch, in batch order
OnlyIntersecting(entries) == SelectSeq(entries, LAMBDA x : x.isIntersecting)

\* C18: a non-intersecting entry is ignored by both triggers: in every state,
\* a callback on any batch ends as the callback on the batch without its
\* non-intersecting entries does, so a batch of such entries only issues no
\* call, writes no style and leaves the seen-set as it is.
C18_ExitEntriesIgnored ==
    /\ \A entries \in Batches(EntranceTargets) :
          HandleIntersectionFrom(CtlState, entries) =
             HandleIntersectionFrom(CtlState, OnlyIntersecting(entries))
    /\ \A entries \in Batches(StaggerTargets) :
          HandleStaggerFrom(CtlState, entries) =
             HandleStaggerFrom(CtlState, OnlyIntersecting(entries))
    /\ HandleIntersectionFrom(CtlState, <<>>) = CtlState
    /\ HandleStaggerFrom(CtlState, <<>>) = CtlState

\* a revealed element whose entrance animation is still in flight, and an
\* unrevealed one: the states in which an exit entry of either can arrive
C18_Witness ==
    /\ \E e \in animatedElements : running[e] # "none" /\ animateElementRuns[e] = 1
    /\ \E e \in EntranceTargets : e \notin animatedElements

\* C19 (as claimed): no element is animated by both the entrance dispatcher
\* and the stagger dispatcher: a stagger item of a revealed container has never
\* been handed to animateElement.
C19_OneDispatchPath ==
    \A e \in Els :
       ~(/\ animateElementRuns[e] >= 1
          /\ \E c \in GroupsOf(e) : staggerRuns[c] >= 1)

\* C20: in the minimal build no element's opacity is ever written, whatever
\* was set up, revealed or finished.
C20_MinimalNeverHides ==
    variant = "minimal" => \A e \in Els : opacity[e] = ""

\* the minimal build after an entrance reveal and a stagger reveal
C20_Witness ==
    /\ variant = "minimal"
    /\ \E e \in Els : animateElementRuns[e] >= 1
    /\ \E c \in Els : staggerRuns[c] >= 1 /\ Len(StaggerItems(c)) >= 1

\* C12: a text-reveal element found at setup is at opacity 0 from the setup
\* until the 100 ms timer fires, and at opacity 1 in every state after that,
\* whether or not it was ever reported intersecting or split.
C12_TextRevealSafetyNet ==
    /\ revealTimer = "pending" => revealOpacity = "0"
    /\ revealTimer = "fired" => revealOpacity = "1"

\* the timer has fired for an element that was never reported intersecting
C12_Witness ==
    /\ revealTimer = "fired"
    /\ revealOpacity = "1"
    /\ revealObserved
    /\ revealRuns = 0

\* C16 (as claimed): over any sequence of intersection callbacks the counter
\* animation of an element is started at most once.
C16_CounterStartsOnce == counterStarted <= 1

\* a literal that does not begin with a digit, a sign or a point
StartsWithNoNumber(lit) ==
    lit # <<>> /\ ~IsDigit(lit[1]) /\ lit[1] \notin {"-", "+", "."}

C14_SetupExactlyOnce ==
    /\ initRuns <= 1
    /\ ~setupEarly
    /\ \A f \in SetupNames : setupRuns[f] = initRuns
    /\ (moduleEvaluated /\ readyState # "loading") => initRuns = 1
    /\ (~moduleEvaluated \/ readyState = "loading") => initRuns = 0

\* the deferred path has run: the module registered its listener while the
\* document was loading, and the document is now complete
C14_Witness ==
    /\ dclListeners = <<"initScrollAnimations">>
    /\ readyState = "complete"
    /\ initRuns = 1
    /\ setupRuns["setupObservers"] = 1
    /\ setupRuns["setupMagneticEffect"] = 1

\* the seen-set holds exactly the elements a dispatch was attempted for, and
\* no element was dispatched twice
SeenSetDiscipline ==
    \A e \in Els :
       /\ e \in animatedElements <=> (animateElementRuns[e] + staggerRuns[e] >= 1)
       /\ animateElementRuns[e] + staggerRuns[e] <= 1

\* C21 (as claimed): a callback adds every intersecting, not yet seen target
\* of its batch to the seen-set and dispatches it within the same callback;
\* an element is in the seen-set if and only if a dispatch was attempted for
\* it, and no dispatch is repeated.
C21_RevealHandling ==
    /\ SeenSetDiscipline
    /\ lastSkipped = {}


\* a duration or delay of a call, in milliseconds
CallMs(call, x) == IF call.unit = "s" THEN RMul(x, Num(1000)) ELSE x

\* two numbers are the same number, NaN being the same as NaN
SameNum(a, b) == (a.nan /\ b.nan) \/ REq(a, b)

\* the declared milliseconds of an option: the attribute, or the default when
\* the attribute is absent or empty
DeclaredMs(attr, dflt) == ParseInt(IF attr = Undefined \/ attr = <<>> THEN dflt ELSE attr)

\* the extra of a preset, in milliseconds
DeclaredExtraMs(kind) ==
    IF kind \in {"flip-up", "slide-reveal"} THEN 200
    ELSE IF kind = "bounce-in" THEN 400
    ELSE 0

DeclaredPreset == IF optKind = "" THEN "fade-up" ELSE optKind

C22_PresetAndDelay ==
    /\ optCall.preset = DeclaredPreset
    /\ optCall.unit = (IF variant = "anime" THEN "ms" ELSE "s")
    /\ SameNum(CallMs(optCall, optCall.delay), DeclaredMs(optDelay, <<"0">>))

DeclaredGroupPreset(attr) ==
    IF attr \in {"fade-up", "fade-down", "zoom-in", "slide-left", "slide-right",
                 "rotate-stagger", "cascade"}
    THEN attr ELSE "fade-up"

\* C23 (as claimed): every call issued for a revealed stagger container hands
\* the primitive the keyframes of the group preset data-stagger names, and the
\* keyframes of fade-up when data-stagger is empty or names no group preset.
C23_StaggerKindResolution ==
    \A c \in Els :
       \A k \in 1..Len(staggerCalls[c]) :
          staggerCalls[c][k].keyframes = DeclaredGroupPreset(dataStagger[c])

\* a frame has just run handleScroll and no scroll event came after it
JustRecomputed == frameRuns = 1 /\ scrollsSinceFrame = 0

\* C24: handleScroll reads the scroll position current when the frame callback
\* runs, not the one of the event that requested the callback: right after a
\* recomputation the position read is the page's scroll position, and the
\* transform of every element in the band is the offset of that position.
C24_LatestScrollPosition ==
    JustRecomputed =>
        /\ frameScrollY = scrollY
        /\ \A el \in parallaxElements :
              parWrote[el] =>
                 transform[el] =
                    TranslateY(scrollY - (lastTop[el] + scrollY) + ViewportHeight,
                               parSpeed[el], parDirection[el])

\* a burst of scroll events answered by one recomputation, the page having
\* moved on from the position of the event that requested the callback
C24_Witness ==
    /\ JustRecomputed /\ frameScrolls >= 2
    /\ scheduledScrollY # scrollY
    /\ \E el \in parallaxElements : parWrote[el]

\* the speed an element declares: data-parallax as a number, 0.5 when the
\* attribute is absent or empty
DeclaredSpeed(attr) ==
    ParseFloat(IF attr = Undefined \/ attr = <<>> THEN <<"0", ".", "5">> ELSE attr)

\* progress * speed * 0.1, with the sign of the direction
DeclaredOffset(progress, speedAttr, dirAttr) ==
    LET magnitude == RMul(RMul(Num(progress), DeclaredSpeed(speedAttr)), Rat(1, 10))
    IN IF dirAttr = "down" THEN RSub(Num(0), magnitude) ELSE magnitude

\* C25: a recomputation writes the transform of an element exactly when
\* 0 < progress < viewport height + element height, where progress is
\* scrollY - elementTop + viewport height; the offset written is
\* progress * speed * 0.1, negated exactly when the direction is 'down'.
C25_ParallaxOffset ==
    \A el \in parallaxElements :
       lastProgress[el] # NoProgress =>
          LET elementTop == lastTop[el] + frameScrollY
              progress   == frameScrollY - elementTop + ViewportHeight
          IN /\ parWrote[el] <=>
                   (0 < progress /\ progress < ViewportHeight + ElementHeight)
             /\ parWrote[el] =>
                   SameNum(transform[el],
                           DeclaredOffset(progress, parSpeed[el], parDirection[el]))
             /\ ~parWrote[el] => transform[el] = prevTransform[el]

\* a 'down' element with data-parallax="2", recomputed at progress 1: the
\* offset is -0.2 px
C25_Witness ==
    \E el \in parallaxElements :
       /\ parWrote[el] /\ lastProgress[el] = 1
       /\ parSpeed[el] = <<"2">> /\ parDirection[el] = "down"
       /\ REq(transform[el], Rat(0 - 2, 10))

\* C26: on a page with no data-parallax element setupParallax installs no
\* scroll listener and no frame callback is ever requested for parallax;
\* with at least one such element there is exactly one scroll listener.
C26_ListenerOnlyWithElements ==
    /\ parallaxElements = {} =>
          /\ scrollListeners = 0
          /\ rafQueue = 0 /\ ~ticking /\ frameRuns = 0
    /\ parallaxElements # {} => scrollListeners = 1

\* a page without parallax elements that was scrolled
C26_Witness == parallaxElements = {} /\ scrollsSinceFrame >= 2

\* an attribute that is present, not empty, and does not start with a number
NonNumeric(attr) == attr # Undefined /\ attr # <<>> /\ ParseInt(attr).nan

\* C27 (as claimed): no delay or duration handed to the primitive is NaN, and
\* a non-numeric data-delay or data-duration yields the default of the option
\* (0 ms, 800 ms plus the preset's extra).
C27_ParseFailureFallsBack ==
    optCall # NoCall =>
        /\ ~optCall.delay.nan
        /\ ~optCall.duration.nan
        /\ NonNumeric(optDelay) => REq(CallMs(optCall, optCall.delay), Num(0))
        /\ (NonNumeric(optDuration) /\ variant # "minimal") =>
               REq(CallMs(optCall, optCall.duration),
                   Num(800 + DeclaredExtraMs(DeclaredPreset)))

\* (pointer - centre) * strength on one axis, the centre being the one of the
\* element's layout box with no transform applied
OffsetFromRest(pointer, start, extent) ==
    RMul(RSub(Num(pointer), Rat(2 * start + extent, 2)),
         MagneticStrength(variant, magneticAttr))

\* C28 (as claimed): the target a mousemove requests is (pointer - centre) *
\* strength with the centre of the untransformed layout box, so it depends on
\* the pointer position of that event only, whatever earlier moves requested
\* or applied.
C28_MovesDoNotAccumulate ==
    magneticLastEvent = "move" =>
        /\ SameNum(magneticAnim.x,
                   OffsetFromRest(magneticPointer.x, MagnetLeft, MagnetWidth))
        /\ SameNum(magneticAnim.y,
                   OffsetFromRest(magneticPointer.y, MagnetTop, MagnetHeight))

\* C29 (as claimed): also when the host page calls initScrollAnimations in
\* addition to the auto-initialization, an element is dispatched an entrance
\* animation at most once in total, across all the controllers of the page.
C29_OneEntranceAcrossControllers ==
    \A e \in Els : animateElementRuns[e] <= 1

\* C30 (as claimed): over any sequence of intersection callbacks the
\* split-and-wrap of a text-reveal element runs at most once.
C30_TextRevealOneShot == revealRuns <= 1

\* every draw animation issued for the SVG, started or not
LineIssued == linePending \cup lineStarted

\* C31 (as claimed): after the reveal of a data-line-draw SVG a matched child
\* that is no geometry element has no dash pattern and is the target of no
\* draw animation; the k-th geometry element in document order (k from 0) has
\* dash array and dash offset set to its total length and is drawn by one
\* animation that starts k * 100 ms after the reveal.
C31_LineDrawMeasurableOnly ==
    lineRuns >= 1 =>
       \A i \in 1..Len(lineShapes) :
          IF lineShapes[i].geometry
          THEN /\ lineDashArray[i] = IntToString(lineShapes[i].length)
               /\ lineDashOffset[i] = IntToString(lineShapes[i].length)
               /\ \E d \in LineIssued : d.target = i
               /\ \A d \in LineIssued :
                     d.target = i =>
                        d.delay = 100 * Cardinality({j \in 1..(i - 1) :
                                                       lineShapes[j].geometry})
          ELSE /\ lineDashArray[i] = Undefined
               /\ lineDashOffset[i] = Undefined
               /\ \A d \in LineIssued : d.target # i

\* mouseenter events the card has received (events alternate, enter first)
CardEnters == (cardEvents + 1) \div 2

\* what the claim says of a card whose listeners are installed: a child that
\* exists got one animation per mouseenter, image and overlay also one per
\* mouseleave and the content child none on mouseleave; a child that is absent
\* got none and kept none from the others
CardRule ==
    /\ \A c \in CardChildren \ cardParts : cardIssued[c] = 0
    /\ \A c \in cardParts \cap {"image", "overlay"} :
          /\ cardIssued[c] = cardEvents
          /\ cardEvents >= 1 => cardLast[c] = (IF cardHover THEN "enter" ELSE "leave")
    /\ "content" \in cardParts =>
          /\ cardIssued["content"] = CardEnters
          /\ cardEvents >= 1 => cardLast["content"] = "enter"

\* C32: in the builds that install the card listeners (Motion One and
\* Anime.js) a mouseenter issues an animation for each of the image, overlay
\* and content children that exists, whatever else is absent, and a mouseleave
\* animates the image and the overlay only, never the content child; the
\* minimal build installs no card listener and issues nothing.
C32_CardHover ==
    IF variant = "minimal"
    THEN \A c \in CardChildren : cardIssued[c] = 0 /\ cardLast[c] = "none"
    ELSE CardRule

\* a card without overlay that was entered and left: the image was animated
\* back, the content child was animated on the mouseenter only
C32_Witness ==
    /\ variant = "motion" /\ cardParts = {"image", "content"}
    /\ cardEvents = 2 /\ ~cardHover
    /\ cardLast["image"] = "leave" /\ cardLast["content"] = "enter"
    /\ cardIssued["image"] = 2 /\ cardIssued["content"] = 1

\* the target of the counter is a non-negative integer: a literal (or the
\* default "0") with no decimal point whose value is a whole number >= 0
IntegerTarget ==
    LET lit == IF counterAttr = Undefined \/ counterAttr = <<>> THEN <<"0">>
               ELSE counterAttr
        val == ParseFloat(lit)
    IN /\ \A i \in 1..Len(lit) : lit[i] # "."
       /\ ~val.nan /\ val.n >= 0 /\ val.n % val.d = 0

\* that target, N
TargetN ==
    LET val == ParseFloat(IF counterAttr = Undefined \/ counterAttr = <<>>
                          THEN <<"0">> ELSE counterAttr)
    IN val.n \div val.d

\* round(p * N), a half going up
RoundOfProgress(p) == (2 * p.n * TargetN + p.d) \div (2 * p.d)

\* the number a text of digits shows
ShownValue(text) == ParseInt(text).n

\* C33: for a non-negative integer target N the text written at any progress
\* p in [0,1] is the integer round(p * N); it lies in 0..N and does not
\* decrease as p increases, so the counter never shows more than its target.
C33_CounterInRange ==
    IntegerTarget =>
       /\ ~counterLast.nan =>
             /\ counterText = IntToString(RoundOfProgress(counterLast))
             /\ ShownValue(counterText) \in 0..TargetN
       /\ \A p \in ProgressValues :
             /\ CounterTextAt(variant, counterAttr, p) = IntToString(RoundOfProgress(p))
             /\ ShownValue(CounterTextAt(variant, counterAttr, p)) \in 0..TargetN
       /\ \A p, q \in ProgressValues :
             p.n * q.d <= q.n * p.d =>
                ShownValue(CounterTextAt(variant, counterAttr, p))
                   <= ShownValue(CounterTextAt(variant, counterAttr, q))

\* the counter of target "7" part of the way: it shows a value strictly
\* between 0 and 7
C33_Witness ==
    /\ counterAttr = <<"7">>
    /\ ~counterLast.nan /\ counterLast.n > 0 /\ counterLast.n < counterLast.d
    /\ counterText = IntToString(RoundOfProgress(counterLast))
    /\ ShownValue(counterText) \in 1..6
====
